---------------------------- MODULE Spec2Model ----------------------------
(***************************************************************************)
(* A model of the smart_rag_project pipeline:                              *)
(*   - src/rag_service/app.py   : the /chat endpoint and its event stream  *)
(*   - src/indexer/build_index.py : fingerprinting, should_reindex,        *)
(*                                   build_faiss_index and search_index    *)
(*   - src/processor/chunker.py : chunk_heading_recursive and the loop     *)
(*                                   that dumps the chunk files            *)
(* Python values are modelled as follows.                                  *)
(*   - an optional value (None, a missing file) is <<>>, a present value   *)
(*     x is <<x>>;                                                         *)
(*   - a query string is a sequence of one-character strings;              *)
(*   - a long text is [id, len]: which text it is and how many characters; *)
(*     a slice text[:n] keeps the id and cuts the length;                  *)
(*   - a file's bytes are a sequence of numbers; a JSON object is the      *)
(*     bytes 123 ('{'), payload, 125 ('}');                                *)
(*   - an embedding vector is [dim, val, of, zero]: its dimension, a       *)
(*     scalar standing for its direction, the text it was computed for,    *)
(*     and whether it is the zero-vector substitute;                       *)
(*   - md5 is taken as collision-free: a digest is the hashed bytes.       *)
(***************************************************************************)
EXTENDS Integers, Sequences, FiniteSets, TLC

VARIABLES
    \* ---- environment shared by the builder and the service
    provDim,        \* dimension of the vectors the embedding provider returns
    \* ---- query service (src/rag_service/app.py), one /chat request
    pc,             \* position of the request handler / event generator
    request,        \* the ChatRequest body: [query, top_k]
    query,          \* the local `query` of chat(): request.query.strip()
    httpStatus,     \* status line of the response (0: none yet)
    retrieval,      \* how retrieve_top_k ended: "pending" | "ok" | "failed"
    docs,           \* the local `docs` of event_generator
    events,         \* the events yielded to the client so far
    svcFaiss,       \* the service's FAISS_FILE (PARENT_DIR/faiss_index.index)
    svcMeta,        \* the service's META_FILE  (PARENT_DIR/meta.json)
    svcReads,       \* reads of the service's index/metadata files
    qEmbedCalls,    \* embedding-provider calls made for queries
    genCalls,       \* generation-provider streams opened
    genYielded,     \* fragments the generation provider has yielded so far
    sourcesAtOpen,  \* sources events already yielded when that stream was opened
    genState,       \* "unopened" | "open" | "failed" | "ended"
    \* ---- files of the indexer (src/indexer/build_index.py), in its cwd
    chunkDir,       \* INPUT_DIR: <<>> or <<[file name -> bytes]>>
    faissFile,      \* FAISS_FILE: <<>> or <<[d, vecs]>>
    metaFile,       \* META_FILE: <<>> or <<list of metadata records>>
    infoFile,       \* INDEX_INFO_FILE: <<>> or <<[readable, dict]>>
    \* ---- one call of build_faiss_index
    bpc,            \* position in build_faiss_index
    force,          \* its force_reindex argument
    texts,          \* its local `texts`
    metas,          \* its local `metas`
    batch,          \* `embeddings` of the running get_gemini_embeddings call
    allEmb,         \* its local `all_embeddings`
    pos,            \* how many texts the embedding loop has consumed
    result,         \* what it returned: [index, metas]
    embedCalls,     \* embedding-provider calls of this build
    writes,         \* artifact files written by this build
    fails,          \* embedding calls that failed in this build
    builds,         \* builds started so far (also the clock of indexed_at)
    edits,          \* changes made to the files from outside the build
    \* ---- history
    atStart,        \* the files and the chunk store when this build started
    hashedDir,      \* the chunk store the persisted content_hash was taken of
    origin,         \* the build that wrote each artifact: [faiss, meta, info]
    cleanRerun,     \* the previous build returned and nothing changed since it began
    \* ---- one call of search_index (src/indexer/build_index.py)
    spc,            \* position in search_index
    sTopK,          \* its top_k argument
    sIndex,         \* its local `index`: <<>> until read
    sMetas,         \* its local `metas`: <<>> until read
    sSeen,          \* the builds that wrote what it read: [faiss, meta]
    sQuery,         \* its local `query_embedding`: <<>> until computed
    sOut,           \* what it returned: <<>> or <<list of results>>
    searches,       \* calls of search_index so far
    \* ---- chunk_heading_recursive (src/processor/chunker.py), one call
    cpc,            \* position in chunk_heading_recursive
    doc,            \* its argument `lines`
    cpos,           \* how many lines the loop has consumed
    cur,            \* its local `cur`
    chunks,         \* its local `chunks`
    \* ---- the chunking script (src/processor/chunker.py), one run
    rpc,            \* position in the script
    runPages,       \* `pages`: the documents of INPUT_FILE, as lines
    pIdx,           \* pages the loop has consumed
    produced,       \* the names of the files this run has dumped
    runs            \* runs of the script started so far

chatVars == <<pc, request, query, httpStatus, retrieval, docs, events, svcFaiss, svcMeta,
              svcReads, qEmbedCalls, genCalls, genYielded, sourcesAtOpen,
              genState>>

fileVars == <<chunkDir, faissFile, metaFile, infoFile>>

buildVars == <<bpc, force, texts, metas, batch, allEmb, pos, result, embedCalls,
               writes, fails, builds, edits, atStart, hashedDir, origin, cleanRerun>>

searchVars == <<spc, sTopK, sIndex, sMetas, sSeen, sQuery, sOut, searches>>

chunkerVars == <<cpc, doc, cpos, cur, chunks, rpc, runPages, pIdx, produced, runs>>

vars == <<provDim, chatVars, fileVars, buildVars, searchVars, chunkerVars>>

-----------------------------------------------------------------------------
(* Bounds of the model *)

MaxQueryLen == 1
MaxVecs == 2
MaxMetas == 2
MaxFrags == 2
MaxChunks == 17
MaxFiles == 2
MaxFail == 2
MaxBuilds == 2
MaxEdits == 1
MaxStoreEdits == 2
MaxSearches == 2
MaxLines == 3
MaxPages == 2
MaxRuns == 2

(* Program constants *)

TOP_K == 5
TEXT_LIMIT == 1500
SNIPPET_LIMIT == 250
DEFAULT_DIM == 768
BATCH_SIZE == 16
MAX_TOKENS == 450
MIN_TOKENS == 60

-----------------------------------------------------------------------------
(* Generic helpers *)

None == <<>>
Some(x) == <<x>>
IsSome(o) == o # <<>>
The(o) == o[1]

Min(a, b) == IF a <= b THEN a ELSE b

Get(d, k, default) == IF k \in DOMAIN d THEN d[k] ELSE default

SeqsUpTo(S, n) == UNION {[1..m -> S] : m \in 0..n}

RECURSIVE CountIf(_, _)
CountIf(s, type) ==
    IF s = <<>> THEN 0
    ELSE (IF s[1].type = type THEN 1 ELSE 0) + CountIf(Tail(s), type)

-----------------------------------------------------------------------------
(* Input domains *)

ProviderDims == {DEFAULT_DIM, 256}
QueryChars == {" ", "a"}
Queries == SeqsUpTo(QueryChars, MaxQueryLen)
TopKs == {1, TOP_K}
Fragments == {"", "a", "b"}
VecVals == {0, 2}
QueryVals == {0, 1}

LongText == [id |-> 1, len |-> 2000]
EmptyText == [id |-> 0, len |-> 0]

\* A record written by the index builder (no "text" key), and a record of a
\* metadata file that carries the chunk text.
BuiltMeta == [url |-> "u1", title |-> "t1", position |-> 0, checksum |-> 1,
              filename |-> 1, indexed_at |-> 1]
TextMeta == [url |-> "u2", position |-> 1, text |-> LongText]
ServiceMetas == {BuiltMeta, TextMeta}

\* An embedding of direction val, computed for text t.
Vector(dim, val, t) == [dim |-> dim, val |-> val, of |-> t, zero |-> FALSE]

\* An index file built with the default model: its dimension and its vectors.
ServiceIndexes ==
    {[d |-> DEFAULT_DIM,
      vecs |-> [i \in 1..Len(v) |-> Vector(DEFAULT_DIM, v[i], v[i])]] :
         v \in SeqsUpTo(VecVals, MaxVecs)}

Vals(index) == [i \in 1..Len(index.vecs) |-> index.vecs[i].val]

-----------------------------------------------------------------------------
(* Strings *)

IsSpace(c) == c = " "

RECURSIVE LStrip(_)
LStrip(s) == IF s # <<>> /\ IsSpace(Head(s)) THEN LStrip(Tail(s)) ELSE s

RECURSIVE RStrip(_)
RStrip(s) ==
    IF s # <<>> /\ IsSpace(s[Len(s)]) THEN RStrip(SubSeq(s, 1, Len(s) - 1)) ELSE s

StripIdentity(s) == s

\* str.strip()
Strip(s) == RStrip(LStrip(s))

\* text[:n]
Slice(text, n) == [id |-> text.id, len |-> Min(text.len, n)]


-----------------------------------------------------------------------------
(* Chunk store: the files of INPUT_DIR *)

\* File names are numbers in their sorted() order; name 0 does not end in
\* ".json", the others do.
IsJson(name) == name > 0

\* The bytes of a chunk record as the chunker dumps it: a JSON object.
Obj(t) == <<123, t, 125>>

\* What files hold in the small chunk stores: two chunk records, and the two
\* halves of a record cut in two (neither is a JSON document).
FileBytes == {Obj(1), Obj(2), <<123, 1>>, <<125>>}

\* The dict a chunk record of payload t loads as (chunker.py, lines 67-73).
ChunkRecord(t) ==
    [url |-> t, title |-> t, position |-> 0,
     text |-> [id |-> t, len |-> 400], checksum |-> t]

\* json.load(file): <<>> when it raises, else <<the dict>>.
ParseJson(bytes) ==
    IF bytes = <<123, 125>> THEN Some(<<>>)
    ELSE IF Len(bytes) = 3 /\ bytes[1] = 123 /\ bytes[3] = 125
         THEN Some(ChunkRecord(bytes[2]))
         ELSE None

\* sorted(names)
RECURSIVE Sorted(_)
Sorted(S) ==
    IF S = {} THEN <<>>
    ELSE LET least == CHOOSE x \in S : \A y \in S : x <= y
         IN  <<least>> \o Sorted(S \ {least})

JsonNames(dir) == Sorted({name \in DOMAIN dir : IsJson(name)})

WithFile(dirOpt, name, bytes) ==
    LET old == IF IsSome(dirOpt) THEN The(dirOpt) ELSE <<>>
    IN  Some([n \in (DOMAIN old) \cup {name} |-> IF n = name THEN bytes ELSE old[n]])

WithoutFile(dirOpt, name) ==
    LET old == The(dirOpt)
    IN  Some([n \in (DOMAIN old) \ {name} |-> old[n]])

-----------------------------------------------------------------------------
(* Indexer: load_chunks, calculate_directory_hash, should_reindex *)

\* One file of load_chunks: a file that does not load is skipped, for texts
\* and metas alike.
RECURSIVE LoadFiles(_, _, _)
LoadFiles(names, dir, now) ==
    IF names = <<>> THEN [texts |-> <<>>, metas |-> <<>>]
    ELSE LET f == names[1]
             rest == LoadFiles(Tail(names), dir, now)
             data == ParseJson(dir[f])
         IN  IF ~IsSome(data) THEN rest
             ELSE [texts |-> <<Get(The(data), "text", EmptyText)>> \o rest.texts,
                   metas |-> <<[url |-> Get(The(data), "url", ""),
                                title |-> Get(The(data), "title", ""),
                                position |-> Get(The(data), "position", 0),
                                checksum |-> Get(The(data), "checksum", ""),
                                filename |-> f,
                                indexed_at |-> now]>> \o rest.metas]

LoadChunks(dirOpt, now) ==
    IF ~IsSome(dirOpt) THEN [texts |-> <<>>, metas |-> <<>>]
    ELSE LoadFiles(JsonNames(The(dirOpt)), The(dirOpt), now)

RECURSIVE ConcatBytes(_, _)
ConcatBytes(names, dir) ==
    IF names = <<>> THEN <<>>
    ELSE dir[names[1]] \o ConcatBytes(Tail(names), dir)

\* calculate_directory_hash: None for a missing directory, else the md5 of
\* the bytes of the .json files in sorted order (the digest is the bytes).
CalculateDirectoryHash(dirOpt) ==
    IF ~IsSome(dirOpt) THEN None
    ELSE Some(ConcatBytes(JsonNames(The(dirOpt)), The(dirOpt)))

InfoReadable(info) == The(info).readable

\* index_info.get('content_hash')
LastHash(info) == Get(The(info).dict, "content_hash", None)

ShouldReindexAlways(faiss, meta, info, dirOpt) == TRUE

ShouldReindexNoMetaCheck(faiss, meta, info, dirOpt) ==
    IF ~IsSome(faiss) THEN TRUE
    ELSE IF ~IsSome(info) THEN TRUE
    ELSE IF ~InfoReadable(info) THEN TRUE
    ELSE IF LastHash(info) # CalculateDirectoryHash(dirOpt) THEN TRUE
    ELSE FALSE

\* should_reindex(input_dir)
ShouldReindex(faiss, meta, info, dirOpt) ==
    IF ~IsSome(faiss) \/ ~IsSome(meta) THEN TRUE
    ELSE IF ~IsSome(info) THEN TRUE
    ELSE IF ~InfoReadable(info) THEN TRUE
    ELSE IF LastHash(info) # CalculateDirectoryHash(dirOpt) THEN TRUE
    ELSE FALSE

\* The dict save_index_info dumps.
IndexInfo(contentHash, numChunks, now) ==
    [readable |-> TRUE,
     dict |-> [content_hash |-> contentHash, num_chunks |-> numChunks,
               indexed_at |-> now, model |-> "text-embedding-004"]]

\* An index_info.json that json.load cannot read.
UnreadableInfo == [readable |-> FALSE, dict |-> <<>>]

-----------------------------------------------------------------------------
(* Indexer: get_gemini_embeddings *)

\* The provider's vector for a text.
Embedding(text) == Vector(provDim, text.id, text)

\* np.zeros(dim): the substitute for a text whose embedding failed.
ZeroVector(dim, text) == [dim |-> dim, val |-> 0, of |-> text, zero |-> TRUE]

\* The except branch: zeros_like the first entry of this call's list, or the
\* default dimension when the list is still empty.
ZeroSubstitute(embeddings, text) ==
    IF embeddings # <<>> THEN ZeroVector(embeddings[1].dim, text)
    ELSE ZeroVector(DEFAULT_DIM, text)

EmbedOneSkipFailed(embeddings, text, ok) ==
    IF ok THEN Append(embeddings, Embedding(text))
    ELSE IF embeddings = <<>> THEN <<ZeroVector(DEFAULT_DIM, text)>>
    ELSE embeddings

\* One turn of the loop of get_gemini_embeddings.
EmbedOne(embeddings, text, ok) ==
    IF ok THEN Append(embeddings, Embedding(text))
    ELSE Append(embeddings, ZeroSubstitute(embeddings, text))

\* np.stack(all_embeddings) raises unless all arrays have one shape.
Stackable(embs) == \A i, j \in 1..Len(embs) : embs[i].dim = embs[j].dim

-----------------------------------------------------------------------------
(* Indexer: initial states *)

NoSnapshot == [faiss |-> None, meta |-> None, info |-> None, dir |-> None, edits |-> 0]

\* No build has written any artifact.
NoOrigin == [faiss |-> 0, meta |-> 0, info |-> 0]

InitBuilder ==
    /\ bpc = "idle"
    /\ force = FALSE
    /\ texts = <<>>
    /\ metas = <<>>
    /\ batch = <<>>
    /\ allEmb = <<>>
    /\ pos = 0
    /\ result = [index |-> None, metas |-> <<>>]
    /\ embedCalls = 0
    /\ writes = 0
    /\ fails = 0
    /\ builds = 0
    /\ edits = 0
    /\ atStart = NoSnapshot
    /\ hashedDir = None
    /\ origin = NoOrigin
    /\ cleanRerun = FALSE

InitSearch ==
    /\ spc = "idle"
    /\ sTopK = 0
    /\ sIndex = None
    /\ sMetas = None
    /\ sSeen = [faiss |-> 0, meta |-> 0]
    /\ sQuery = None
    /\ sOut = None
    /\ searches = 0

InitChunker ==
    /\ cpc = "idle"
    /\ doc = <<>>
    /\ cpos = 0
    /\ cur = <<>>
    /\ chunks = <<>>
    /\ rpc = "idle"
    /\ runPages = <<>>
    /\ pIdx = 0
    /\ produced = {}
    /\ runs = 0

InitNoArtifacts ==
    /\ faissFile = None
    /\ metaFile = None
    /\ infoFile = None

-----------------------------------------------------------------------------
(* Indexer: build_faiss_index, one action per step *)

\* faiss.IndexFlatL2(dim) with the stacked embeddings added.
BuiltIndex == [d |-> allEmb[1].dim, vecs |-> allEmb]

\* The call, up to the decision to load or to rebuild (lines 127-137).
BuildCheck(f) ==
    /\ bpc = "idle"
    /\ builds < MaxBuilds
    /\ builds' = builds + 1
    /\ force' = f
    /\ atStart' = [faiss |-> faissFile, meta |-> metaFile, info |-> infoFile,
                   dir |-> chunkDir, edits |-> edits]
    /\ IF ~f /\ ~ShouldReindex(faissFile, metaFile, infoFile, chunkDir)
         THEN /\ result' = [index |-> faissFile, metas |-> The(metaFile)]
              /\ bpc' = "done"
         ELSE /\ result' = [index |-> None, metas |-> <<>>]
              /\ bpc' = "load"
    /\ UNCHANGED <<texts, metas, batch, allEmb, pos, embedCalls, writes, fails,
                   edits, hashedDir, origin, cleanRerun>>
    /\ UNCHANGED <<provDim, chatVars, searchVars, chunkerVars, fileVars>>

\* texts, metas = load_chunks(INPUT_DIR); no chunk: return None, [].
BuildLoad ==
    /\ bpc = "load"
    /\ LET loaded == LoadChunks(chunkDir, builds)
       IN  /\ texts' = loaded.texts
           /\ metas' = loaded.metas
           /\ bpc' = IF loaded.texts = <<>> THEN "done" ELSE "embed"
    /\ UNCHANGED <<force, batch, allEmb, pos, result, embedCalls, writes, fails,
                   builds, edits, atStart, hashedDir, origin, cleanRerun>>
    /\ UNCHANGED <<provDim, chatVars, searchVars, chunkerVars, fileVars>>

\* One embedding call; the batch texts[i:i+BATCH_SIZE] ends with it when it
\* is the batch's last text, and its embeddings then extend all_embeddings.
EmbedItem(ok) ==
    /\ bpc = "embed"
    /\ ok \/ fails < MaxFail
    /\ LET embeddings == EmbedOne(batch, texts[pos + 1], ok)
           batchEnds == (pos + 1) % BATCH_SIZE = 0 \/ pos + 1 = Len(texts)
       IN  /\ batch' = IF batchEnds THEN <<>> ELSE embeddings
           /\ allEmb' = IF batchEnds THEN allEmb \o embeddings ELSE allEmb
    /\ pos' = pos + 1
    /\ embedCalls' = embedCalls + 1
    /\ fails' = IF ok THEN fails ELSE fails + 1
    /\ bpc' = IF pos + 1 = Len(texts) THEN "stack" ELSE "embed"
    /\ UNCHANGED <<force, texts, metas, result, writes, builds, edits, atStart,
                   hashedDir, origin, cleanRerun>>
    /\ UNCHANGED <<provDim, chatVars, searchVars, chunkerVars, fileVars>>

\* np.stack(all_embeddings): a ValueError ends the build and reaches the caller.
Stack ==
    /\ bpc = "stack"
    /\ bpc' = IF Stackable(allEmb) THEN "write_index" ELSE "aborted"
    /\ UNCHANGED <<force, texts, metas, batch, allEmb, pos, result, embedCalls,
                   writes, fails, builds, edits, atStart, hashedDir, origin, cleanRerun>>
    /\ UNCHANGED <<provDim, chatVars, searchVars, chunkerVars, fileVars>>

\* faiss.write_index(index, FAISS_FILE)
WriteIndex ==
    /\ bpc = "write_index"
    /\ faissFile' = Some(BuiltIndex)
    /\ origin' = [origin EXCEPT !.faiss = builds]
    /\ writes' = writes + 1
    /\ bpc' = "write_meta"
    /\ UNCHANGED <<chunkDir, metaFile, infoFile>>
    /\ UNCHANGED <<force, texts, metas, batch, allEmb, pos, result, embedCalls,
                   fails, builds, edits, atStart, hashedDir, cleanRerun>>
    /\ UNCHANGED <<provDim, chatVars, searchVars, chunkerVars>>

\* json.dump(metas, META_FILE)
WriteMeta ==
    /\ bpc = "write_meta"
    /\ metaFile' = Some(metas)
    /\ origin' = [origin EXCEPT !.meta = builds]
    /\ writes' = writes + 1
    /\ bpc' = "write_info"
    /\ UNCHANGED <<chunkDir, faissFile, infoFile>>
    /\ UNCHANGED <<force, texts, metas, batch, allEmb, pos, result, embedCalls,
                   fails, builds, edits, atStart, hashedDir, cleanRerun>>
    /\ UNCHANGED <<provDim, chatVars, searchVars, chunkerVars>>

\* json.dump(metas, META_FILE) by a builder started in the directory above
\* rag_service: the relative path "meta.json" is then the service's META_FILE.
\* (FAISS_FILE, "aiss_index.index", is the service's "faiss_index.index" in no
\* working directory.)
WriteMetaInParent ==
    /\ bpc = "write_meta"
    /\ metaFile' = Some(metas)
    /\ svcMeta' = Some(metas)
    /\ origin' = [origin EXCEPT !.meta = builds]
    /\ writes' = writes + 1
    /\ bpc' = "write_info"
    /\ UNCHANGED <<chunkDir, faissFile, infoFile>>
    /\ UNCHANGED <<force, texts, metas, batch, allEmb, pos, result, embedCalls,
                   fails, builds, edits, atStart, hashedDir, cleanRerun>>
    /\ UNCHANGED <<pc, request, query, httpStatus, retrieval, docs, events, svcFaiss,
                   svcReads, qEmbedCalls, genCalls, genYielded, sourcesAtOpen,
                   genState>>
    /\ UNCHANGED <<provDim, searchVars, chunkerVars>>

\* content_hash = calculate_directory_hash(INPUT_DIR); save_index_info(...);
\* return index, metas
WriteInfo ==
    /\ bpc = "write_info"
    /\ infoFile' = Some(IndexInfo(CalculateDirectoryHash(chunkDir), Len(texts), builds))
    /\ hashedDir' = Some(chunkDir)
    /\ origin' = [origin EXCEPT !.info = builds]
    /\ writes' = writes + 1
    /\ result' = [index |-> Some(BuiltIndex), metas |-> metas]
    /\ bpc' = "done"
    /\ UNCHANGED <<chunkDir, faissFile, metaFile>>
    /\ UNCHANGED <<force, texts, metas, batch, allEmb, pos, embedCalls, fails,
                   builds, edits, atStart, cleanRerun>>
    /\ UNCHANGED <<provDim, chatVars, searchVars, chunkerVars>>

\* The call is over (it returned, or np.stack raised) and its locals are
\* gone; the next call may start.
BuildReturn ==
    /\ bpc \in {"done", "aborted"}
    /\ builds < MaxBuilds
    /\ bpc' = "idle"
    /\ cleanRerun' = (bpc = "done" /\ edits = atStart.edits)
    /\ force' = FALSE
    /\ texts' = <<>>
    /\ metas' = <<>>
    /\ batch' = <<>>
    /\ allEmb' = <<>>
    /\ pos' = 0
    /\ result' = [index |-> None, metas |-> <<>>]
    /\ embedCalls' = 0
    /\ writes' = 0
    /\ fails' = 0
    /\ atStart' = NoSnapshot
    /\ UNCHANGED <<builds, edits, hashedDir, origin>>
    /\ UNCHANGED <<provDim, chatVars, searchVars, chunkerVars, fileVars>>

\* A write of an artifact raises (faiss.write_index, open/json.dump of
\* META_FILE or of INDEX_INFO_FILE) before it has changed its file: nothing
\* in build_faiss_index catches it, the exception reaches the caller and the
\* files written before it stay as written.
WriteFails ==
    /\ bpc \in {"write_index", "write_meta", "write_info"}
    /\ bpc' = "aborted"
    /\ UNCHANGED fileVars
    /\ UNCHANGED <<force, texts, metas, batch, allEmb, pos, result, embedCalls,
                   writes, fails, builds, edits, atStart, hashedDir, origin,
                   cleanRerun>>
    /\ UNCHANGED <<provDim, chatVars, searchVars, chunkerVars>>

\* The process running the build is killed between two of its writes; its
\* locals are gone and the files stay as they are.
Crash ==
    /\ bpc \in {"write_meta", "write_info"}
    /\ bpc' = "idle"
    /\ cleanRerun' = FALSE
    /\ force' = FALSE
    /\ texts' = <<>>
    /\ metas' = <<>>
    /\ batch' = <<>>
    /\ allEmb' = <<>>
    /\ pos' = 0
    /\ result' = [index |-> None, metas |-> <<>>]
    /\ embedCalls' = 0
    /\ writes' = 0
    /\ fails' = 0
    /\ atStart' = NoSnapshot
    /\ UNCHANGED <<builds, edits, hashedDir, origin>>
    /\ UNCHANGED <<provDim, chatVars, searchVars, chunkerVars, fileVars>>

-----------------------------------------------------------------------------
(* The files change from outside the build *)

\* A chunking run dumps a record into the store (chunker.py, line 75).
WriteChunk(name, bytes) ==
    /\ chunkDir' = WithFile(chunkDir, name, bytes)
    /\ chunkDir' # chunkDir
    /\ edits' = edits + 1
    /\ cleanRerun' = FALSE
    /\ UNCHANGED <<faissFile, metaFile, infoFile>>
    /\ UNCHANGED <<bpc, force, texts, metas, batch, allEmb, pos, result,
                   embedCalls, writes, fails, builds, atStart, hashedDir, origin>>
    /\ UNCHANGED <<provDim, chatVars, searchVars, chunkerVars>>

\* A file of the store is removed.
DeleteChunk(name) ==
    /\ IsSome(chunkDir)
    /\ name \in DOMAIN The(chunkDir)
    /\ chunkDir' = WithoutFile(chunkDir, name)
    /\ edits' = edits + 1
    /\ cleanRerun' = FALSE
    /\ UNCHANGED <<faissFile, metaFile, infoFile>>
    /\ UNCHANGED <<bpc, force, texts, metas, batch, allEmb, pos, result,
                   embedCalls, writes, fails, builds, atStart, hashedDir, origin>>
    /\ UNCHANGED <<provDim, chatVars, searchVars, chunkerVars>>

\* One of the three persisted artifacts is removed.
RemoveArtifact(which) ==
    /\ \/ which = "faiss" /\ IsSome(faissFile) /\ faissFile' = None
          /\ UNCHANGED <<metaFile, infoFile>>
       \/ which = "meta" /\ IsSome(metaFile) /\ metaFile' = None
          /\ UNCHANGED <<faissFile, infoFile>>
       \/ which = "info" /\ IsSome(infoFile) /\ infoFile' = None
          /\ UNCHANGED <<faissFile, metaFile>>
    /\ edits' = edits + 1
    /\ cleanRerun' = FALSE
    /\ UNCHANGED chunkDir
    /\ UNCHANGED <<bpc, force, texts, metas, batch, allEmb, pos, result,
                   embedCalls, writes, fails, builds, atStart, hashedDir, origin>>
    /\ UNCHANGED <<provDim, chatVars, searchVars, chunkerVars>>

\* index_info.json is left truncated: json.load raises on it.
DamageInfo ==
    /\ IsSome(infoFile)
    /\ InfoReadable(infoFile)
    /\ infoFile' = Some(UnreadableInfo)
    /\ edits' = edits + 1
    /\ cleanRerun' = FALSE
    /\ UNCHANGED <<chunkDir, faissFile, metaFile>>
    /\ UNCHANGED <<bpc, force, texts, metas, batch, allEmb, pos, result,
                   embedCalls, writes, fails, builds, atStart, hashedDir, origin>>
    /\ UNCHANGED <<provDim, chatVars, searchVars, chunkerVars>>

-----------------------------------------------------------------------------
(* Query service: retrieve_top_k (src/rag_service/app.py) *)

\* Squared L2 distance of two vectors of the model (IndexFlatL2 reports it).
Dist(a, b) == (a - b) * (a - b)

\* index.search(query, k): the positions of the min(k, ntotal) nearest
\* vectors, nearest first; equal distances may come in either order.
Rankings(vals, qv, k) ==
    LET n == Len(vals)
        m == Min(k, n)
    IN  {o \in [1..m -> 1..n] :
            /\ \A i, j \in 1..m : i # j => o[i] # o[j]
            /\ \A i, j \in 1..m : i < j => Dist(vals[o[i]], qv) <= Dist(vals[o[j]], qv)
            /\ \A p \in 1..n :
                  (\A i \in 1..m : o[i] # p) =>
                      \A i \in 1..m : Dist(vals[o[i]], qv) <= Dist(vals[p], qv)}

\* One entry of the result list of retrieve_top_k.
MakeDoc(meta, dist) ==
    [distance |-> dist,
     text |-> Slice(Get(meta, "text", EmptyText), TEXT_LIMIT),
     url |-> Get(meta, "url", ""),
     title |-> Get(meta, "title", "Unknown"),
     position |-> Get(meta, "position", 0)]

\* The loop over zip(D[0], I[0]): a label beyond the metadata list is
\* skipped (the -1 padding of a short result is skipped likewise).
RECURSIVE CollectDocs(_, _, _, _)
CollectDocs(o, vals, qv, metaList) ==
    IF o = <<>> THEN <<>>
    ELSE LET rest == CollectDocs(Tail(o), vals, qv, metaList)
         IN  IF o[1] > Len(metaList) THEN rest
             ELSE <<MakeDoc(metaList[o[1]], Dist(vals[o[1]], qv))>> \o rest

\* except Exception as e: raise HTTPException(status_code=500, detail=str(e))
RetrievalError(cause) == [ok |-> FALSE, status |-> 500, detail |-> cause, docs |-> <<>>]
RetrievalOk(ds) == [ok |-> TRUE, status |-> 200, detail |-> "", docs |-> ds]

\* The outcomes of retrieve_top_k(query, top_k) for the files on disk; emb is
\* what the embedding provider does with the query: <<>> for a failure, <<v>>
\* for a vector of direction v.
RetrieveTopK(faiss, meta, k, emb, dim) ==
    IF ~IsSome(faiss) THEN {RetrievalError("Index not found")}
    ELSE IF ~IsSome(meta) THEN {RetrievalError("Metadata not found")}
    ELSE IF ~IsSome(emb) THEN {RetrievalError("Embedding error")}
    ELSE IF The(faiss).d # dim THEN {RetrievalError("Search error")}
    ELSE {RetrievalOk(CollectDocs(o, Vals(The(faiss)), The(emb), The(meta))) :
              o \in Rankings(Vals(The(faiss)), The(emb), k)}

\* GET /health: whether the service's two files exist.
Health == [faiss_index_exists |-> IsSome(svcFaiss), metadata_exists |-> IsSome(svcMeta)]

\* The files retrieve_top_k reads and the embedding calls it makes.
RetrieveReads(faiss, meta) == IF IsSome(faiss) /\ IsSome(meta) THEN 2 ELSE 0
RetrieveEmbeds(faiss, meta) == IF IsSome(faiss) /\ IsSome(meta) THEN 1 ELSE 0

-----------------------------------------------------------------------------
(* Indexer: search_index, one action per step *)

\* How a call of search_index ends: a returned list, or an exception.
SearchReturned(results) == [ok |-> TRUE, error |-> "", results |-> results]
SearchRaised(error) == [ok |-> FALSE, error |-> error, results |-> <<>>]

\* The text of a query of direction qv.
QueryText(qv) == [id |-> qv, len |-> 1]

\* One entry of `results`.
SearchResult(rank, dist, meta) == [rank |-> rank, distance |-> dist, metadata |-> meta]

\* The loop over zip(distances[0], indices[0]): metas[idx] for every label
\* that is not the -1 padding.
SearchResults(o, vals, qv, metaList) ==
    [i \in 1..Len(o) |-> SearchResult(i, Dist(vals[o[i]], qv), metaList[o[i]])]

\* The call, up to the test of os.path.exists(FAISS_FILE) (lines 187-191).
SearchCall(k) ==
    /\ spc = "idle"
    /\ searches < MaxSearches
    /\ searches' = searches + 1
    /\ sTopK' = k
    /\ IF ~IsSome(faissFile)
         THEN /\ sOut' = Some(SearchReturned(<<>>))
              /\ spc' = "returned"
         ELSE /\ sOut' = None
              /\ spc' = "read_index"
    /\ UNCHANGED <<sIndex, sMetas, sSeen, sQuery>>
    /\ UNCHANGED <<provDim, chatVars, fileVars, buildVars, chunkerVars>>

\* index = faiss.read_index(FAISS_FILE)
SearchReadIndex ==
    /\ spc = "read_index"
    /\ IF ~IsSome(faissFile)
         THEN /\ sOut' = Some(SearchRaised("RuntimeError"))
              /\ spc' = "raised"
              /\ UNCHANGED <<sIndex, sSeen>>
         ELSE /\ sIndex' = faissFile
              /\ sSeen' = [sSeen EXCEPT !.faiss = origin.faiss]
              /\ spc' = "read_meta"
              /\ UNCHANGED sOut
    /\ UNCHANGED <<sTopK, sMetas, sQuery, searches>>
    /\ UNCHANGED <<provDim, chatVars, fileVars, buildVars, chunkerVars>>

\* with open(META_FILE) as f: metas = json.load(f)
SearchReadMeta ==
    /\ spc = "read_meta"
    /\ IF ~IsSome(metaFile)
         THEN /\ sOut' = Some(SearchRaised("FileNotFoundError"))
              /\ spc' = "raised"
              /\ UNCHANGED <<sMetas, sSeen>>
         ELSE /\ sMetas' = metaFile
              /\ sSeen' = [sSeen EXCEPT !.meta = origin.meta]
              /\ spc' = "embed"
              /\ UNCHANGED sOut
    /\ UNCHANGED <<sTopK, sIndex, sQuery, searches>>
    /\ UNCHANGED <<provDim, chatVars, fileVars, buildVars, chunkerVars>>

\* query_embedding = get_gemini_embeddings([query])[0]
SearchEmbed(qv, ok) ==
    /\ spc = "embed"
    /\ sQuery' = Some(EmbedOne(<<>>, QueryText(qv), ok)[1])
    /\ spc' = "search"
    /\ UNCHANGED <<sTopK, sIndex, sMetas, sSeen, sOut, searches>>
    /\ UNCHANGED <<provDim, chatVars, fileVars, buildVars, chunkerVars>>

\* index.search(query_embedding, top_k) and the loop that builds `results`:
\* faiss refuses a query of another dimension, and metas[idx] raises on a
\* label beyond the metadata list.
SearchIndex ==
    /\ spc = "search"
    /\ LET index == The(sIndex)
           q == The(sQuery)
       IN  IF index.d # q.dim
             THEN /\ sOut' = Some(SearchRaised("AssertionError"))
                  /\ spc' = "raised"
             ELSE \E o \in Rankings(Vals(index), q.val, sTopK) :
                     IF \E i \in 1..Len(o) : o[i] > Len(The(sMetas))
                       THEN /\ sOut' = Some(SearchRaised("IndexError"))
                            /\ spc' = "raised"
                       ELSE /\ sOut' = Some(SearchReturned(
                                    SearchResults(o, Vals(index), q.val, The(sMetas))))
                            /\ spc' = "returned"
    /\ UNCHANGED <<sTopK, sIndex, sMetas, sSeen, sQuery, searches>>
    /\ UNCHANGED <<provDim, chatVars, fileVars, buildVars, chunkerVars>>

\* The call is over and its locals are gone; the next call may start.
SearchDone ==
    /\ spc \in {"returned", "raised"}
    /\ searches < MaxSearches
    /\ spc' = "idle"
    /\ sTopK' = 0
    /\ sIndex' = None
    /\ sMetas' = None
    /\ sSeen' = [faiss |-> 0, meta |-> 0]
    /\ sQuery' = None
    /\ sOut' = None
    /\ UNCHANGED searches
    /\ UNCHANGED <<provDim, chatVars, fileVars, buildVars, chunkerVars>>

-----------------------------------------------------------------------------
(* Query service: the events of event_generator *)

SourceOf(d) ==
    [title |-> d.title, url |-> d.url,
     snippet |-> [text |-> Slice(d.text, SNIPPET_LIMIT), suffix |-> "..."],
     distance |-> d.distance, position |-> d.position]

SourcesOf(ds) == [i \in 1..Len(ds) |-> SourceOf(ds[i])]

Event(type, sources, text) == [type |-> type, sources |-> sources, text |-> text]

SourcesEvent(ds) == Event("sources", SourcesOf(ds), "")
TokenEvent(content) == Event("token", <<>>, content)
DoneEvent == Event("done", <<>>, "")
ErrorEvent(message) == Event("error", <<>>, message)

IsTerminal(e) == e.type \in {"done", "error"}


-----------------------------------------------------------------------------
(* Query service: chat() and event_generator (src/rag_service/app.py) *)

nonChatVars == <<provDim, fileVars, buildVars, searchVars, chunkerVars>>

InitChat ==
    /\ pc = "idle"
    /\ request = None
    /\ query = <<>>
    /\ httpStatus = 0
    /\ retrieval = "pending"
    /\ docs = <<>>
    /\ events = <<>>
    /\ svcReads = 0
    /\ qEmbedCalls = 0
    /\ genCalls = 0
    /\ genYielded = <<>>
    /\ sourcesAtOpen = 0
    /\ genState = "unopened"

\* The service's files are whatever is on disk when the request arrives.
InitServiceFiles ==
    /\ svcFaiss \in {None} \cup {Some(x) : x \in ServiceIndexes}
    /\ svcMeta \in {None} \cup {Some(m) : m \in SeqsUpTo(ServiceMetas, MaxMetas)}

FirstEventsNoSources(res) ==
    IF ~res.ok THEN <<ErrorEvent(res.detail)>>
    ELSE IF res.docs = <<>> THEN <<ErrorEvent("No docs found")>>
    ELSE <<>>

\* event_generator up to its first suspension: the events yielded for the
\* outcome of retrieve_top_k.
FirstEvents(res) ==
    IF ~res.ok THEN <<ErrorEvent(res.detail)>>
    ELSE IF res.docs = <<>> THEN <<ErrorEvent("No docs found")>>
    ELSE <<SourcesEvent(res.docs)>>

ForwardEveryFragment(evs, content) == Append(evs, TokenEvent(content))

\* for chunk in response: if chunk.choices and chunk.choices[0].delta.content
ForwardFragment(evs, content) ==
    IF content # "" THEN Append(evs, TokenEvent(content)) ELSE evs

OnProviderErrorThenDone(evs) ==
    Append(Append(evs, ErrorEvent("Generation error")), DoneEvent)

\* except Exception as e: yield the error event (the generator then ends)
OnProviderError(evs) == Append(evs, ErrorEvent("Generation error"))

OnStreamEndSilent(evs) == evs

\* Step 5: yield the done event
OnStreamEnd(evs) == Append(evs, DoneEvent)

\* POST /chat: strip and validate the query; an empty one is answered with
\* 400 and no StreamingResponse is made.
Chat(q, k) ==
    /\ pc = "idle"
    /\ request' = Some([query |-> q, top_k |-> k])
    /\ query' = Strip(q)
    /\ IF query' = <<>>
         THEN /\ httpStatus' = 400
              /\ pc' = "rejected"
         ELSE /\ httpStatus' = 200
              /\ pc' = "retrieving"
    /\ UNCHANGED <<retrieval, docs, events, svcFaiss, svcMeta, svcReads, qEmbedCalls,
                   genCalls, genYielded, sourcesAtOpen, genState>>
    /\ UNCHANGED nonChatVars

\* event_generator, Steps 1 and 2: retrieve, then the first yield.
Retrieve ==
    /\ pc = "retrieving"
    /\ \E emb \in {None} \cup {Some(v) : v \in QueryVals} :
       \E res \in RetrieveTopK(svcFaiss, svcMeta, The(request).top_k, emb, provDim) :
          /\ retrieval' = IF res.ok THEN "ok" ELSE "failed"
          /\ docs' = res.docs
          /\ events' = events \o FirstEvents(res)
          /\ pc' = IF res.ok /\ res.docs # <<>> THEN "sources_sent" ELSE "closed"
    /\ svcReads' = svcReads + RetrieveReads(svcFaiss, svcMeta)
    /\ qEmbedCalls' = qEmbedCalls + RetrieveEmbeds(svcFaiss, svcMeta)
    /\ UNCHANGED <<request, query, httpStatus, svcFaiss, svcMeta, genCalls,
                   genYielded, sourcesAtOpen, genState>>
    /\ UNCHANGED nonChatVars

\* Steps 3 and 4: build the prompt and open the provider's stream.
OpenGeneration ==
    /\ pc = "sources_sent"
    /\ genCalls' = genCalls + 1
    /\ sourcesAtOpen' = CountIf(events, "sources")
    /\ \/ /\ genState' = "open"
          /\ pc' = "generating"
          /\ UNCHANGED events
       \/ /\ genState' = "failed"
          /\ events' = OnProviderError(events)
          /\ pc' = "closed"
    /\ UNCHANGED <<request, query, httpStatus, retrieval, docs, svcFaiss, svcMeta,
                   svcReads, qEmbedCalls, genYielded>>
    /\ UNCHANGED nonChatVars

\* The provider yields one more chunk; its content may be empty.
NextFragment(content) ==
    /\ pc = "generating"
    /\ Len(genYielded) < MaxFrags
    /\ genYielded' = Append(genYielded, content)
    /\ events' = ForwardFragment(events, content)
    /\ UNCHANGED <<pc, request, query, httpStatus, retrieval, docs, svcFaiss, svcMeta,
                   svcReads, qEmbedCalls, genCalls, sourcesAtOpen, genState>>
    /\ UNCHANGED nonChatVars

\* The provider raises while the response is iterated.
GenerationFails ==
    /\ pc = "generating"
    /\ genState' = "failed"
    /\ events' = OnProviderError(events)
    /\ pc' = "closed"
    /\ UNCHANGED <<request, query, httpStatus, retrieval, docs, svcFaiss, svcMeta,
                   svcReads, qEmbedCalls, genCalls, genYielded, sourcesAtOpen>>
    /\ UNCHANGED nonChatVars

\* The provider's stream ends.
GenerationEnds ==
    /\ pc = "generating"
    /\ genState' = "ended"
    /\ events' = OnStreamEnd(events)
    /\ pc' = "closed"
    /\ UNCHANGED <<request, query, httpStatus, retrieval, docs, svcFaiss, svcMeta,
                   svcReads, qEmbedCalls, genCalls, genYielded, sourcesAtOpen>>
    /\ UNCHANGED nonChatVars

\* The client goes away while the generator is suspended (at a yield or in
\* asyncio.sleep): the generator is cancelled, and a cancellation is not an
\* Exception, so neither except clause runs.
ClientDisconnect ==
    /\ pc \in {"sources_sent", "generating"}
    /\ pc' = "cancelled"
    /\ UNCHANGED <<request, query, httpStatus, retrieval, docs, events, svcFaiss, svcMeta,
                   svcReads, qEmbedCalls, genCalls, genYielded, sourcesAtOpen, genState>>
    /\ UNCHANGED nonChatVars

NextChat ==
    \/ \E q \in Queries, k \in TopKs : Chat(q, k)
    \/ Retrieve
    \/ OpenGeneration
    \/ \E content \in Fragments : NextFragment(content)
    \/ GenerationFails
    \/ GenerationEnds
    \/ ClientDisconnect

InitChatSpec ==
    /\ provDim \in ProviderDims
    /\ InitChat
    /\ InitServiceFiles
    /\ InitBuilder
    /\ InitSearch
    /\ InitChunker
    /\ chunkDir = None
    /\ InitNoArtifacts

SpecChat == InitChatSpec /\ [][NextChat]_vars


-----------------------------------------------------------------------------
(* Chunker: chunk_heading_recursive (src/processor/chunker.py) *)

\* A line of a page is [heading, tok]: whether it starts with "#", and how
\* many tokens it encodes to. Lines are stripped and non-empty (line 61), so
\* the strip() of a joined buffer changes nothing.
Line(heading, tok) == [heading |-> heading, tok |-> tok]

RECURSIVE SumTok(_)
SumTok(buf) == IF buf = <<>> THEN 0 ELSE buf[1].tok + SumTok(Tail(buf))

\* token_len("\n".join(buf)): the tokens of the lines and one per "\n".
TokenLen(buf) == IF buf = <<>> THEN 0 ELSE SumTok(buf) + (Len(buf) - 1)

CloseOnHeadingKeepBuffer(st) ==
    IF st.cur = <<>> THEN st
    ELSE [chunks |-> IF TokenLen(st.cur) > MIN_TOKENS THEN Append(st.chunks, st.cur)
                     ELSE st.chunks,
          cur |-> st.cur]

CloseOnHeadingAtLeast(st) ==
    IF st.cur = <<>> THEN st
    ELSE [chunks |-> IF TokenLen(st.cur) >= MIN_TOKENS THEN Append(st.chunks, st.cur)
                     ELSE st.chunks,
          cur |-> <<>>]

\* Lines 36-40: a heading closes a non-empty buffer, which is kept only if it
\* is longer than MIN_TOKENS.
CloseOnHeading(st) ==
    IF st.cur = <<>> THEN st
    ELSE [chunks |-> IF TokenLen(st.cur) > MIN_TOKENS THEN Append(st.chunks, st.cur)
                     ELSE st.chunks,
          cur |-> <<>>]

\* Lines 41-45: the line joins the buffer, and a buffer longer than
\* MAX_TOKENS is closed and kept.
AppendLine(st, ln) ==
    LET buf == Append(st.cur, ln)
    IN  IF TokenLen(buf) > MAX_TOKENS
          THEN [chunks |-> Append(st.chunks, buf), cur |-> <<>>]
          ELSE [chunks |-> st.chunks, cur |-> buf]

\* One turn of the loop over lines (lines 34-45).
ChunkStep(st, ln) == AppendLine(IF ln.heading THEN CloseOnHeading(st) ELSE st, ln)

\* Lines 46-49: what is left in the buffer is kept only if it is longer than
\* MIN_TOKENS.
ChunkFinish(st) ==
    IF st.cur # <<>> /\ TokenLen(st.cur) > MIN_TOKENS THEN Append(st.chunks, st.cur)
    ELSE st.chunks

RECURSIVE ChunkLoop(_, _)
ChunkLoop(st, lines) ==
    IF lines = <<>> THEN st ELSE ChunkLoop(ChunkStep(st, lines[1]), Tail(lines))

\* chunk_heading_recursive(lines)
ChunkHeadingRecursive(lines) ==
    ChunkFinish(ChunkLoop([chunks |-> <<>>, cur |-> <<>>], lines))

\* The call (lines 31-33).
ChunkCall(lines) ==
    /\ cpc = "idle"
    /\ doc' = lines
    /\ cpos' = 0
    /\ cur' = <<>>
    /\ chunks' = <<>>
    /\ cpc' = "loop"
    /\ UNCHANGED <<rpc, runPages, pIdx, produced, runs>>
    /\ UNCHANGED <<provDim, chatVars, fileVars, buildVars, searchVars>>

\* One turn of the loop.
ChunkLine ==
    /\ cpc = "loop"
    /\ cpos < Len(doc)
    /\ LET st == ChunkStep([chunks |-> chunks, cur |-> cur], doc[cpos + 1])
       IN  /\ chunks' = st.chunks
           /\ cur' = st.cur
    /\ cpos' = cpos + 1
    /\ UNCHANGED <<cpc, doc, rpc, runPages, pIdx, produced, runs>>
    /\ UNCHANGED <<provDim, chatVars, fileVars, buildVars, searchVars>>

\* The end of the input: lines 46-50; `cur` is not reset.
ChunkEnd ==
    /\ cpc = "loop"
    /\ cpos = Len(doc)
    /\ chunks' = ChunkFinish([chunks |-> chunks, cur |-> cur])
    /\ cpc' = "returned"
    /\ UNCHANGED <<doc, cpos, cur, rpc, runPages, pIdx, produced, runs>>
    /\ UNCHANGED <<provDim, chatVars, fileVars, buildVars, searchVars>>

\* The call is over and its locals are gone; the next call may start.
ChunkReturn ==
    /\ cpc = "returned"
    /\ cpc' = "idle"
    /\ doc' = <<>>
    /\ cpos' = 0
    /\ cur' = <<>>
    /\ chunks' = <<>>
    /\ UNCHANGED <<rpc, runPages, pIdx, produced, runs>>
    /\ UNCHANGED <<provDim, chatVars, fileVars, buildVars, searchVars>>

-----------------------------------------------------------------------------
(* Chunker: the script's loop over the pages (src/processor/chunker.py) *)

\* outname = f"page_{p_i}_chunk_{c_i}.json", as a file name of the store: the
\* names sort by page, then by chunk.
ChunkName(p, c) == p * MaxLines + c + 1

\* The bytes json.dump(out) writes for a chunk: a record that stands for its
\* text.
ChunkBytes(part) == Obj(TokenLen(part))

\* The inner loop (lines 65-75): one file per chunk of the page, written over
\* whatever file has that name.
RECURSIVE DumpParts(_, _, _, _)
DumpParts(dirOpt, p, parts, c) ==
    IF c = Len(parts) THEN dirOpt
    ELSE DumpParts(WithFile(dirOpt, ChunkName(p, c), ChunkBytes(parts[c + 1])),
                   p, parts, c + 1)

\* os.makedirs(OUTPUT_DIR, exist_ok=True); pages = json.load(open(INPUT_FILE))
RunStart(pages) ==
    /\ rpc \in {"idle", "ended"}
    /\ runs < MaxRuns
    /\ runs' = runs + 1
    /\ chunkDir' = IF IsSome(chunkDir) THEN chunkDir ELSE Some(<<>>)
    /\ runPages' = pages
    /\ pIdx' = 0
    /\ produced' = {}
    /\ rpc' = "pages"
    /\ UNCHANGED <<cpc, doc, cpos, cur, chunks>>
    /\ UNCHANGED <<faissFile, metaFile, infoFile>>
    /\ UNCHANGED <<provDim, chatVars, buildVars, searchVars>>

\* One turn of the loop over pages (lines 55-75).
RunPage ==
    /\ rpc = "pages"
    /\ pIdx < Len(runPages)
    /\ LET parts == ChunkHeadingRecursive(runPages[pIdx + 1])
       IN  /\ chunkDir' = DumpParts(chunkDir, pIdx, parts, 0)
           /\ produced' = produced \cup {ChunkName(pIdx, c) : c \in 0..(Len(parts) - 1)}
    /\ pIdx' = pIdx + 1
    /\ UNCHANGED <<rpc, runPages, runs>>
    /\ UNCHANGED <<cpc, doc, cpos, cur, chunks>>
    /\ UNCHANGED <<faissFile, metaFile, infoFile>>
    /\ UNCHANGED <<provDim, chatVars, buildVars, searchVars>>

\* The loop is over (line 77).
RunEnd ==
    /\ rpc = "pages"
    /\ pIdx = Len(runPages)
    /\ rpc' = "ended"
    /\ UNCHANGED <<runPages, pIdx, produced, runs>>
    /\ UNCHANGED <<cpc, doc, cpos, cur, chunks>>
    /\ UNCHANGED <<provDim, chatVars, fileVars, buildVars, searchVars>>

-----------------------------------------------------------------------------
(* Specifications of the indexer *)

\* Small chunk stores of well-formed records, with or without a file that is
\* not a .json file.
SmallDirs ==
    {None} \cup {Some(d) : d \in UNION {[m..n -> {Obj(1), Obj(2)}] :
                                           m \in 0..1, n \in 0..MaxFiles}}

\* The token counts of the lines of a page: short lines (20 + 1 + 39 is
\* MIN_TOKENS), a line of MIN_TOKENS, a long line (410 + 1 + 39 is
\* MAX_TOKENS) and a line longer than MAX_TOKENS.
LineToks == {20, 39, MIN_TOKENS, 410, MAX_TOKENS + 1}

Lines == {Line(h, t) : h \in BOOLEAN, t \in LineToks}

\* The pages chunk_heading_recursive is called with.
Docs == SeqsUpTo(Lines, MaxLines)

\* The pages of a chunking run: short lines and lines longer than MAX_TOKENS,
\* chunked into no, one or two chunks.
RunDocs == SeqsUpTo({Line(FALSE, 20), Line(FALSE, MAX_TOKENS + 1)}, 2)

\* Chunk stores of records of one text.
SearchDirs == {Some([name \in 1..n |-> Obj(1)]) : n \in 0..MaxFiles}

\* Chunk stores of up to MaxChunks records, enough for a second batch.
BatchDirs == {Some([k \in 1..n |-> Obj(k)]) : n \in 0..MaxChunks}

InitBuild ==
    /\ provDim = DEFAULT_DIM
    /\ InitChat
    /\ svcFaiss = None
    /\ svcMeta = None
    /\ InitBuilder
    /\ InitSearch
    /\ InitChunker
    /\ InitNoArtifacts
    /\ chunkDir \in SmallDirs

\* Between two builds the store and the artifacts may change, MaxEdits times.
Idle == bpc = "idle" /\ edits < MaxEdits

NextBuild ==
    \/ \E f \in BOOLEAN : BuildCheck(f)
    \/ BuildLoad
    \/ EmbedItem(TRUE)
    \/ Stack
    \/ WriteIndex
    \/ WriteMeta
    \/ WriteInfo
    \/ BuildReturn
    \/ Idle /\ \E name \in 1..MaxFiles, bytes \in FileBytes : WriteChunk(name, bytes)
    \/ Idle /\ \E name \in 1..MaxFiles : DeleteChunk(name)
    \/ Idle /\ \E which \in {"faiss", "meta", "info"} : RemoveArtifact(which)
    \/ Idle /\ DamageInfo

\* Builds of a small chunk store by a provider that answers every call, with
\* outside changes between the builds.
SpecBuild == InitBuild /\ [][NextBuild]_vars

InitHash ==
    /\ provDim = DEFAULT_DIM
    /\ InitChat
    /\ svcFaiss = None
    /\ svcMeta = None
    /\ InitBuilder
    /\ InitSearch
    /\ InitChunker
    /\ InitNoArtifacts
    /\ chunkDir \in SmallDirs

\* Between two builds the store may change, MaxStoreEdits times.
StoreIdle == bpc = "idle" /\ edits < MaxStoreEdits

NextHash ==
    \/ BuildCheck(FALSE)
    \/ BuildLoad
    \/ EmbedItem(TRUE)
    \/ Stack
    \/ WriteIndex
    \/ WriteMeta
    \/ WriteInfo
    \/ BuildReturn
    \/ StoreIdle /\ \E name \in 1..MaxFiles, bytes \in FileBytes : WriteChunk(name, bytes)
    \/ StoreIdle /\ \E name \in 1..MaxFiles : DeleteChunk(name)

\* Non-forced builds that record the store's fingerprint, with files of the
\* store written and removed between them.
SpecHash == InitHash /\ [][NextHash]_vars

InitCrash ==
    /\ provDim = DEFAULT_DIM
    /\ InitChat
    /\ svcFaiss = None
    /\ svcMeta = None
    /\ InitBuilder
    /\ InitSearch
    /\ InitChunker
    /\ InitNoArtifacts
    /\ chunkDir \in SmallDirs

NextCrash ==
    \/ \E f \in BOOLEAN : BuildCheck(f)
    \/ BuildLoad
    \/ EmbedItem(TRUE)
    \/ Stack
    \/ WriteIndex
    \/ WriteMeta
    \/ WriteInfo
    \/ BuildReturn
    \/ WriteFails
    \/ Crash
    \/ Idle /\ \E name \in 1..MaxFiles, bytes \in {Obj(1), Obj(2)} : WriteChunk(name, bytes)

\* Builds, by a provider that answers every call, that a failing write or a
\* kill may interrupt, with chunking output arriving between the builds.
SpecCrash == InitCrash /\ [][NextCrash]_vars

InitLiveStore ==
    /\ provDim = DEFAULT_DIM
    /\ InitChat
    /\ svcFaiss = None
    /\ svcMeta = None
    /\ InitBuilder
    /\ InitSearch
    /\ InitChunker
    /\ InitNoArtifacts
    /\ chunkDir \in SmallDirs

\* The chunking script and the builder are separate processes: the store may
\* change at any moment, also while a build runs, MaxEdits times.
AnyTime == edits < MaxEdits

NextLiveStore ==
    \/ BuildCheck(FALSE)
    \/ BuildLoad
    \/ EmbedItem(TRUE)
    \/ Stack
    \/ WriteIndex
    \/ WriteMeta
    \/ WriteInfo
    \/ BuildReturn
    \/ AnyTime /\ \E name \in 1..MaxFiles, bytes \in {Obj(1), Obj(2)} :
                     WriteChunk(name, bytes)
    \/ AnyTime /\ \E name \in 1..MaxFiles : DeleteChunk(name)

\* Non-forced builds, by a provider that answers every call, of a store whose
\* records are written and removed while the builds run.
SpecLiveStore == InitLiveStore /\ [][NextLiveStore]_vars

InitDeploy ==
    /\ provDim = DEFAULT_DIM
    /\ InitChat
    /\ svcFaiss = None
    /\ svcMeta = None
    /\ InitBuilder
    /\ InitSearch
    /\ InitChunker
    /\ InitNoArtifacts
    /\ chunkDir \in SmallDirs

\* A call of build_faiss_index has written its three files and returned.
Deployed == bpc \in {"idle", "done"} /\ origin.info > 0

NextDeploy ==
    \/ \E f \in BOOLEAN : BuildCheck(f)
    \/ BuildLoad
    \/ EmbedItem(TRUE)
    \/ Stack
    \/ WriteIndex
    \/ WriteMeta
    \/ WriteMetaInParent
    \/ WriteInfo
    \/ BuildReturn
    \/ Deployed /\ \E q \in Queries, k \in TopKs : Chat(q, k)
    \/ Retrieve

\* A fresh installation: builds by a provider that answers every call,
\* started in any working directory, and then a /chat request.
SpecDeploy == InitDeploy /\ [][NextDeploy]_vars

InitSearchSpec ==
    /\ provDim = DEFAULT_DIM
    /\ InitChat
    /\ svcFaiss = None
    /\ svcMeta = None
    /\ InitBuilder
    /\ InitSearch
    /\ InitChunker
    /\ InitNoArtifacts
    /\ chunkDir \in SearchDirs

NextSearch ==
    \/ BuildCheck(FALSE)
    \/ BuildLoad
    \/ EmbedItem(TRUE)
    \/ Stack
    \/ WriteIndex
    \/ WriteMeta
    \/ WriteInfo
    \/ BuildReturn
    \/ Idle /\ \E name \in 1..MaxFiles : WriteChunk(name, Obj(2))
    \/ \E k \in TopKs : SearchCall(k)
    \/ SearchReadIndex
    \/ SearchReadMeta
    \/ \E qv \in QueryVals, ok \in BOOLEAN : SearchEmbed(qv, ok)
    \/ SearchIndex
    \/ SearchDone

\* Calls of search_index while non-forced builds, by a provider that answers
\* every build call, run and chunking output arrives between the builds.
SpecSearch == InitSearchSpec /\ [][NextSearch]_vars

InitChunkerSpec ==
    /\ provDim = DEFAULT_DIM
    /\ InitChat
    /\ svcFaiss = None
    /\ svcMeta = None
    /\ InitBuilder
    /\ InitSearch
    /\ InitChunker
    /\ InitNoArtifacts
    /\ chunkDir = None

NextChunker ==
    \/ cpc = "idle" /\ \E lines \in Docs : ChunkCall(lines)
    \/ ChunkLine
    \/ ChunkEnd
    \/ ChunkReturn

\* Calls of chunk_heading_recursive on pages of up to MaxLines lines.
SpecChunker == InitChunkerSpec /\ [][NextChunker]_vars

InitRechunk ==
    /\ provDim = DEFAULT_DIM
    /\ InitChat
    /\ svcFaiss = None
    /\ svcMeta = None
    /\ InitBuilder
    /\ InitSearch
    /\ InitChunker
    /\ InitNoArtifacts
    /\ chunkDir = None

NextRechunk ==
    \/ rpc # "pages" /\ runs < MaxRuns /\ \E pages \in SeqsUpTo(RunDocs, MaxPages) : RunStart(pages)
    \/ RunPage
    \/ RunEnd

\* Runs of the chunking script, one after the other, into the same store.
SpecRechunk == InitRechunk /\ [][NextRechunk]_vars

InitBatch ==
    /\ provDim \in ProviderDims
    /\ InitChat
    /\ svcFaiss = None
    /\ svcMeta = None
    /\ InitBuilder
    /\ InitSearch
    /\ InitChunker
    /\ InitNoArtifacts
    /\ chunkDir \in BatchDirs

NextBatch ==
    \/ \E f \in BOOLEAN : BuildCheck(f)
    \/ BuildLoad
    \/ \E ok \in BOOLEAN : EmbedItem(ok)
    \/ Stack
    \/ WriteIndex
    \/ WriteMeta
    \/ WriteInfo

\* One build over a chunk store that spans more than one batch.
SpecBatch == InitBatch /\ [][NextBatch]_vars

-----------------------------------------------------------------------------
(* Properties of the query service *)

TerminalCount == CountIf(events, "done") + CountIf(events, "error")

NonEmptyFragments == SelectSeq(genYielded, LAMBDA content : content # "")

TokensOf(fragments) == [i \in 1..Len(fragments) |-> TokenEvent(fragments[i])]

\* C1: every stream that runs to its end holds exactly one terminal event
\* (done or error); a terminal event is the last event of its stream and
\* closes it, so no sources or token event follows it.
C1_OneTerminalEventLast ==
    /\ TerminalCount <= 1
    /\ \A i \in 1..Len(events) : IsTerminal(events[i]) => i = Len(events)
    /\ pc = "closed" => TerminalCount = 1
    /\ TerminalCount = 1 => pc = "closed"

C1_Witness ==
    /\ pc = "closed"
    /\ Len(events) = 4
    /\ events[1].type = "sources"
    /\ events[2].type = "token"
    /\ events[4].type = "done"

\* C2: when the generation provider fails after n >= 0 non-empty fragments,
\* the closed stream is the sources event, the n token events in provider
\* order, and one error event; no done event, no token lost or repeated.
C2_MidStreamFailure ==
    (pc = "closed" /\ genState = "failed") =>
        /\ events = <<SourcesEvent(docs)>> \o TokensOf(NonEmptyFragments)
                       \o <<ErrorEvent("Generation error")>>
        /\ CountIf(events, "token") = Len(NonEmptyFragments)
        /\ CountIf(events, "error") = 1
        /\ CountIf(events, "done") = 0

C2_Witness ==
    /\ pc = "closed"
    /\ genState = "failed"
    /\ NonEmptyFragments = <<"a", "b">>
    /\ Len(events) = 4

\* C3: when retrieval returns at least one result, exactly one sources event
\* is emitted, it lists every retrieved result, and it is in the stream
\* before the generation provider's stream is opened and before any token.
C3_SourcesBeforeGeneration ==
    /\ CountIf(events, "sources") <= 1
    /\ (retrieval = "ok" /\ docs # <<>>) =>
          /\ CountIf(events, "sources") = 1
          /\ events[1].type = "sources"
          /\ Len(events[1].sources) = Len(docs)
          /\ \A i \in 1..Len(docs) :
                /\ events[1].sources[i].title = docs[i].title
                /\ events[1].sources[i].url = docs[i].url
                /\ events[1].sources[i].distance = docs[i].distance
                /\ events[1].sources[i].position = docs[i].position
    /\ \A i \in 1..Len(events) :
          events[i].type = "token" => i > 1 /\ events[1].type = "sources"
    /\ genCalls > 0 => sourcesAtOpen = 1 /\ events[1].type = "sources"

C3_Witness ==
    /\ genCalls = 1
    /\ Len(docs) = 2
    /\ CountIf(events, "token") = 1

\* C4 (as claimed): a retrieval that succeeds with zero results ends the
\* stream with a terminal event, never opens the generation provider, and
\* emits no event of type error.
C4_ZeroResultsNotAnError ==
    (pc = "closed" /\ retrieval = "ok" /\ docs = <<>>) =>
        /\ events # <<>>
        /\ genCalls = 0
        /\ CountIf(events, "error") = 0

BlankQuery(q) == \A i \in 1..Len(q) : q[i] = " "

\* C5: a request whose query is empty or all whitespace is answered with the
\* 400 error: no stream, no event, no read of the index files, no embedding
\* call and no generation call.
C5_EmptyQueryRejected ==
    (IsSome(request) /\ BlankQuery(The(request).query)) =>
        /\ pc = "rejected"
        /\ httpStatus = 400
        /\ events = <<>>
        /\ svcReads = 0
        /\ qEmbedCalls = 0
        /\ genCalls = 0

C5_Witness ==
    /\ pc = "rejected"
    /\ The(request).query = <<" ">>
    /\ IsSome(svcFaiss)
    /\ IsSome(svcMeta)

-----------------------------------------------------------------------------
(* Properties of the indexer *)

\* The stored fingerprint can be read and equals the store's fingerprint.
HashMatches(info, dirOpt) ==
    /\ IsSome(info)
    /\ InfoReadable(info)
    /\ LastHash(info) = CalculateDirectoryHash(dirOpt)

\* The build in progress was called with all three artifacts in place and a
\* stored fingerprint equal to the store's.
StartedUpToDate ==
    /\ bpc # "idle"
    /\ IsSome(atStart.faiss)
    /\ IsSome(atStart.meta)
    /\ HashMatches(atStart.info, atStart.dir)

\* C6: a build called with force false while index, metadata and fingerprint
\* files exist and the stored fingerprint equals the store's fingerprint makes
\* no embedding call, writes none of the three artifacts and returns the
\* persisted index and metadata; and a non-forced build that follows a
\* returned build with nothing changed in between makes no embedding call.
C6_UpToDateBuildOnlyLoads ==
    /\ (StartedUpToDate /\ ~force) =>
           /\ bpc = "done"
           /\ embedCalls = 0
           /\ writes = 0
           /\ faissFile = atStart.faiss
           /\ metaFile = atStart.meta
           /\ infoFile = atStart.info
           /\ result = [index |-> atStart.faiss, metas |-> The(atStart.meta)]
    /\ (bpc # "idle" /\ ~force /\ cleanRerun) => embedCalls = 0

C6_Witness ==
    /\ bpc = "done"
    /\ ~force
    /\ builds = 2
    /\ cleanRerun
    /\ StartedUpToDate
    /\ IsSome(result.index)
    /\ Len(result.metas) = 2

\* The states in which the claim says a rebuild is needed.
NeedsRebuild(faiss, meta, info, dirOpt) ==
    \/ ~IsSome(faiss)
    \/ ~IsSome(meta)
    \/ ~IsSome(info)
    \/ ~InfoReadable(info)
    \/ LastHash(info) # CalculateDirectoryHash(dirOpt)

\* C7: should_reindex is true exactly when the index file or the metadata
\* file is missing, or the fingerprint record is missing or unreadable, or the
\* stored hash differs from the store's fingerprint; and a non-forced build
\* rebuilds exactly in those states.
C7_ShouldReindexExactly ==
    /\ ShouldReindex(faissFile, metaFile, infoFile, chunkDir)
           <=> NeedsRebuild(faissFile, metaFile, infoFile, chunkDir)
    /\ (bpc # "idle" /\ ~force) =>
           (bpc # "done" \/ embedCalls > 0 \/ ~IsSome(result.index))
               <=> NeedsRebuild(atStart.faiss, atStart.meta, atStart.info, atStart.dir)

C7_Witness ==
    /\ bpc = "embed"
    /\ ~force
    /\ embedCalls > 0
    /\ IsSome(atStart.faiss)
    /\ IsSome(atStart.meta)
    /\ IsSome(atStart.info)
    /\ InfoReadable(atStart.info)
    /\ LastHash(atStart.info) # CalculateDirectoryHash(atStart.dir)

\* The records of a store: its .json files, by name.
Records(dirOpt) ==
    IF ~IsSome(dirOpt) THEN None
    ELSE Some([name \in {n \in DOMAIN The(dirOpt) : IsJson(n)} |-> The(dirOpt)[name]])

\* C8 (as claimed): a store whose records differ from those of the store that
\* was fingerprinted, in the bytes of a record, in the records present, or in
\* how the bytes are divided among or named as records, has a different
\* fingerprint.
C8_FingerprintDetectsAnyChange ==
    (IsSome(hashedDir) /\ Records(chunkDir) # Records(The(hashedDir))) =>
        CalculateDirectoryHash(chunkDir) # CalculateDirectoryHash(The(hashedDir))

\* The text the chunk file of this name holds.
TextOfFile(f) == Get(The(ParseJson(The(chunkDir)[f])), "text", EmptyText)

\* C9: when a build has returned an index, whatever embedding calls failed,
\* the index holds as many vectors as there are metadata records, the vector
\* at each position is the embedding or the zero substitute of the text of the
\* chunk file named by the metadata record at that position, and the files
\* written hold that index and those records.
C9_VectorsAlignedWithMetas ==
    (bpc = "done" /\ IsSome(result.index)) =>
        LET vecs == The(result.index).vecs
        IN  /\ Len(vecs) = Len(result.metas)
            /\ \A i \in 1..Len(vecs) :
                   /\ vecs[i].of = TextOfFile(result.metas[i].filename)
                   /\ vecs[i].zero \/ vecs[i] = Embedding(vecs[i].of)
            /\ faissFile = result.index
            /\ metaFile = Some(result.metas)

C9_Witness ==
    /\ bpc = "done"
    /\ IsSome(result.index)
    /\ Len(result.metas) > BATCH_SIZE
    /\ fails = MaxFail
    /\ The(result.index).vecs[BATCH_SIZE + 1].zero
    /\ ~The(result.index).vecs[1].zero

\* The embeddings of the run so far, batch in progress included.
RunEmbeddings == allEmb \o batch

\* C10 (as claimed): whatever embedding calls fail, the build does not abort,
\* every zero substitute has the dimension of the first successful embedding
\* of the run (the default dimension when the first call of the run failed),
\* and all vectors of the run have one dimension.
C10_FailuresNeverAbort ==
    /\ bpc # "aborted"
    /\ \A i \in 1..Len(RunEmbeddings) :
           RunEmbeddings[i].zero =>
               RunEmbeddings[i].dim = IF RunEmbeddings[1].zero THEN DEFAULT_DIM
                                      ELSE RunEmbeddings[1].dim
    /\ bpc \notin {"idle", "load", "embed"} => Stackable(RunEmbeddings)

\* The three artifacts were written by one build, which wrote them all.
FromOneBuild ==
    /\ origin.faiss > 0
    /\ origin.faiss = origin.meta
    /\ origin.meta = origin.info

\* C11 (as claimed): when a rebuild has been interrupted between its write of
\* the index file and its write of the fingerprint record, should_reindex is
\* not false on files that do not all come from one completed build.
C11_InterruptedBuildIsNeverValid ==
    (bpc \in {"idle", "aborted"} /\ ~ShouldReindex(faissFile, metaFile, infoFile, chunkDir))
        => FromOneBuild

\* C12 (as claimed): when a write of the index, the metadata or the
\* fingerprint record fails, the rebuild aborts and the three artifacts that
\* were in place when it started are as they were.
C12_FailedWriteLeavesOldArtifacts ==
    (bpc = "aborted" /\ IsSome(atStart.faiss) /\ IsSome(atStart.meta) /\ IsSome(atStart.info))
        => /\ faissFile = atStart.faiss
           /\ metaFile = atStart.meta
           /\ infoFile = atStart.info

\* A call of search_index is over, by a return or by an exception.
SearchOver == spc \in {"returned", "raised"}

\* C13 (as claimed): a search that runs while a build is writing reads the
\* index and the metadata of one and the same build.
C13_ReaderSeesOneBuild ==
    (IsSome(sIndex) /\ IsSome(sMetas)) => sSeen.faiss = sSeen.meta

\* C17 (as claimed): a search that finds the index file or the metadata file
\* missing ends with an "index not found" error, never with a result list,
\* and no other failure of a search ends with that error.
C17_MissingIndexIsADistinctError ==
    SearchOver =>
        IF ~IsSome(sIndex) \/ ~IsSome(sMetas)
          THEN ~The(sOut).ok /\ The(sOut).error = "IndexNotFound"
          ELSE The(sOut).ok \/ The(sOut).error # "IndexNotFound"

\* C18 (as claimed): the embedding of a query is never the zero-vector
\* substitute: a search whose query embedding call failed ends with an error
\* and returns no result.
C18_QueryEmbeddingFailureIsFatal ==
    IsSome(sQuery) =>
        /\ ~The(sQuery).zero
        /\ spc = "returned" => The(sQuery) = Embedding(The(sQuery).of)

\* The metadata record holds the text of its chunk file, or a prefix of it.
CarriesText(m) ==
    /\ "text" \in DOMAIN m
    /\ m.text.id = TextOfFile(m.filename).id
    /\ m.text.len > 0
    /\ m.text.len <= TextOfFile(m.filename).len

\* C16 (as claimed): every metadata record a build has persisted holds its
\* chunk's text (or a prefix of it) with url, title, position, checksum and
\* indexed_at, so the text of a result made from it is the chunk's text cut
\* to the result's limit.
C16_MetadataCarriesChunkText ==
    (bpc = "done" /\ IsSome(result.index)) =>
        \A i \in 1..Len(The(metaFile)) :
            LET m == The(metaFile)[i]
            IN  /\ {"url", "title", "position", "checksum", "indexed_at"} \subseteq DOMAIN m
                /\ CarriesText(m)
                /\ MakeDoc(m, 0).text = Slice(m.text, TEXT_LIMIT)

\* The texts the vectors of an index file were computed for.
IndexedTexts(faiss) == [i \in 1..Len(The(faiss).vecs) |-> The(faiss).vecs[i].of]

\* The chunk files the records of a metadata file were loaded from.
MetaFilenames(ms) == [i \in 1..Len(ms) |-> ms[i].filename]

\* The persisted vectors and metadata are those of the records of store dirOpt.
BuiltFrom(faiss, meta, dirOpt) ==
    /\ IndexedTexts(faiss) = LoadChunks(dirOpt, 0).texts
    /\ MetaFilenames(The(meta)) = MetaFilenames(LoadChunks(dirOpt, 0).metas)

\* C22 (as claimed): the store whose fingerprint a build persists holds
\* exactly the records that build loaded and embedded, also when records
\* are written or removed while the build runs; and whenever should_reindex
\* returns false between or after builds, the persisted vectors and
\* metadata are those of the store's current records.
C22_HashIsOfWhatWasEmbedded ==
    /\ (bpc = "done" /\ origin.info = builds) =>
           LoadChunks(The(hashedDir), builds) = [texts |-> texts, metas |-> metas]
    /\ (bpc \in {"idle", "done"}
           /\ ~ShouldReindex(faissFile, metaFile, infoFile, chunkDir)) =>
           BuiltFrom(faissFile, metaFile, chunkDir)

\* C23 (as claimed): the index file and the metadata file the query service
\* looks for are the files the builder wrote, so that a /chat request made
\* after a completed build finds both (as /health reports) and its
\* retrieval does not fail with "Index not found".
C23_ServiceReadsWhatBuildWrote ==
    retrieval # "pending" =>
        /\ svcFaiss = faissFile
        /\ svcMeta = metaFile
        /\ Health.faiss_index_exists
        /\ Health.metadata_exists
        /\ \A i \in 1..Len(events) : events[i] # ErrorEvent("Index not found")

-----------------------------------------------------------------------------
(* Properties of the chunker *)

\* C14 (as claimed): every chunk chunk_heading_recursive returns, whether a
\* heading or the size cap closed it, is at most MAX_TOKENS long, except
\* possibly the last one.
C14_ChunksWithinMaxTokens ==
    cpc = "returned" =>
        \A i \in 1..(Len(chunks) - 1) : TokenLen(chunks[i]) <= MAX_TOKENS

\* C15 (as claimed): a trailing buffer of at most MIN_TOKENS is dropped when
\* the page has other chunks, and is the page's one chunk when it has none.
C15_ShortTailKeptWhenOnlyChunk ==
    (cpc = "returned" /\ cur # <<>> /\ TokenLen(cur) <= MIN_TOKENS) =>
        \/ chunks = <<cur>>
        \/ chunks # <<>> /\ chunks[Len(chunks)] # cur

\* The buffer a line joins: empty after a heading has closed the buffer.
JoinedBuffer(ln) == Append(IF ln.heading THEN <<>> ELSE cur, ln)

\* What a turn of the loop adds to `chunks`, by the claimed rule.
EmittedByLine(ln) ==
    (IF ln.heading /\ cur # <<>> /\ TokenLen(cur) > MIN_TOKENS THEN <<cur>> ELSE <<>>)
        \o (IF TokenLen(JoinedBuffer(ln)) > MAX_TOKENS THEN <<JoinedBuffer(ln)>> ELSE <<>>)

\* What the end of the input adds to `chunks`, by the claimed rule.
EmittedAtEnd == IF cur # <<>> /\ TokenLen(cur) > MIN_TOKENS THEN <<cur>> ELSE <<>>

\* C20: a buffer closed by a heading or by the end of the input is emitted
\* if and only if it is longer than MIN_TOKENS (one of exactly MIN_TOKENS is
\* dropped), and a buffer longer than MAX_TOKENS is emitted whatever its
\* length; so a heading followed by one short line gives one chunk when the
\* two joined exceed MIN_TOKENS and none otherwise.
C20_ClosureThresholds ==
    [][/\ (cpc = "loop" /\ cpos' = cpos + 1) =>
              chunks' = chunks \o EmittedByLine(doc[cpos + 1])
       /\ (cpc = "loop" /\ cpc' = "returned") =>
              /\ chunks' = chunks \o EmittedAtEnd
              /\ ( /\ Len(doc) = 2
                   /\ doc[1].heading
                   /\ ~doc[2].heading
                   /\ TokenLen(doc) <= MAX_TOKENS) =>
                     chunks' = IF TokenLen(doc) > MIN_TOKENS THEN <<doc>> ELSE <<>>]_vars

C20_Witness ==
    /\ cpc = "returned"
    /\ Len(doc) = 2
    /\ doc[1].heading
    /\ ~doc[2].heading
    /\ TokenLen(doc) = MIN_TOKENS
    /\ chunks = <<>>

\* The lines of a list of chunks, read in output order.
RECURSIVE EmittedLines(_)
EmittedLines(cs) == IF cs = <<>> THEN <<>> ELSE cs[1] \o EmittedLines(Tail(cs))

\* s can be had from t by leaving lines out: every element of s is matched
\* to a position of t of its own, in order.
RECURSIVE IsSubsequence(_, _)
IsSubsequence(s, t) ==
    IF s = <<>> THEN TRUE
    ELSE IF t = <<>> THEN FALSE
    ELSE IF s[1] = t[1] THEN IsSubsequence(Tail(s), Tail(t))
    ELSE IsSubsequence(s, Tail(t))

\* C21: in every emitted chunk a heading line is the first line or is not
\* there at all; and the lines of the emitted chunks, in output order, are
\* a subsequence of the input lines read so far, each input line matched
\* by at most one line of one chunk (the open buffer continues the match).
C21_HeadingsFirstLinesOnce ==
    cpc \in {"loop", "returned"} =>
        /\ \A c \in 1..Len(chunks) : \A i \in 2..Len(chunks[c]) : ~chunks[c][i].heading
        /\ IsSubsequence(EmittedLines(chunks), doc)
        /\ cpc = "loop" =>
               /\ \A i \in 2..Len(cur) : ~cur[i].heading
               /\ IsSubsequence(EmittedLines(Append(chunks, cur)), SubSeq(doc, 1, cpos))

\* A call that returned two chunks, the second opened by a heading, after
\* dropping a short buffer: the output is a proper subsequence of the input.
C21_Witness ==
    /\ cpc = "returned"
    /\ Len(chunks) = 2
    /\ chunks[2][1].heading
    /\ \E i \in 1..Len(doc) : ~doc[i].heading
    /\ Len(EmittedLines(chunks)) < Len(doc)

\* The chunk files load_chunks would index.
IndexedNames == {LoadChunks(chunkDir, 0).metas[i].filename :
                    i \in 1..Len(LoadChunks(chunkDir, 0).metas)}

\* C19 (as claimed): when a chunking run has ended, the records of the store
\* that load_chunks would index are exactly the records that run produced.
C19_RechunkingSupersedes ==
    rpc = "ended" => IndexedNames = produced

=============================================================================
